---- MODULE Spec2Model ----
(***************************************************************************)
(* Model of the DASH transcoding service (src/src/main.rs): the watcher    *)
(* callback, the event loop of watch_folder, and the job threads running   *)
(* process_video_file / convert_to_dash.                                   *)
(*                                                                         *)
(* A path is a sequence of components, a component a sequence of           *)
(* characters (one-character strings).  BAD stands for a byte that is not  *)
(* valid UTF-8.  An Option is a sequence of length 0 (None) or 1 (Some).   *)
(***************************************************************************)
EXTENDS Naturals, Sequences, FiniteSets

\* ------------------------------------------------------------------ bounds

\* Paths the watcher hands to its callback in a run (an error counts as one).
MaxPaths == 2

\* ------------------------------------------------------- program constants

\* Duration::from_secs(2), main.rs:166
SETTLE == 2

\* ----------------------------------------------------------------- strings

BAD == "\\xFF"

None == << >>
Some(x) == << x >>
IsSome(o) == Len(o) = 1
Unwrap(o) == o[1]

\* u8::to_ascii_lowercase on the letters the model uses.
AsciiLower(c) ==
    CASE c = "M" -> "m"
      [] c = "K" -> "k"
      [] c = "V" -> "v"
      [] c = "P" -> "p"
      [] OTHER -> c

\* OsStr::to_str: Some exactly when every byte is valid UTF-8.
ToStr(s) == IF \A i \in 1..Len(s) : s[i] # BAD THEN Some(s) ELSE None

\* str::eq_ignore_ascii_case
EqIgnoreAsciiCase(a, b) ==
    /\ Len(a) = Len(b)
    /\ \A i \in 1..Len(a) : AsciiLower(a[i]) = AsciiLower(b[i])

\* Index of the last "." of s, 0 when there is none: the scan from the right
\* of rsplitn(2, '.').
RECURSIVE LastDotFrom(_, _)
LastDotFrom(s, i) ==
    IF i = 0 THEN 0 ELSE IF s[i] = "." THEN i ELSE LastDotFrom(s, i - 1)
LastDot(s) == LastDotFrom(s, Len(s))

\* std::path rsplit_file_at_dot: <<before, after>>, both Options, for the
\* name split at index d of its last "." (0: none).
SplitAtDot(file, d) ==
    IF file = << ".", "." >> THEN << Some(file), None >>
    ELSE IF d = 0 THEN << None, Some(file) >>
    ELSE IF d = 1 THEN << Some(file), None >>
    ELSE << Some(SubSeq(file, 1, d - 1)),
            Some(SubSeq(file, d + 1, Len(file))) >>

\* (A one-element set binds a value that is computed once.)
RsplitFileAtDot(file) ==
    CHOOSE r \in { SplitAtDot(f, LastDot(f)) : f \in { file } } : TRUE

\* Path::file_name: the last component, None for the empty path or "..".
FileName(p) ==
    IF Len(p) = 0 \/ p[Len(p)] = << ".", "." >> THEN None ELSE Some(p[Len(p)])

\* Path::extension: before.and(after)
Extension(p) ==
    IF ~IsSome(FileName(p)) THEN None
    ELSE CHOOSE r \in { IF IsSome(ba[1]) THEN ba[2] ELSE None :
                          ba \in { RsplitFileAtDot(Unwrap(FileName(p))) } } : TRUE

\* Path::file_stem: before.or(after)
FileStem(p) ==
    IF ~IsSome(FileName(p)) THEN None
    ELSE CHOOSE r \in { IF IsSome(ba[1]) THEN ba[1] ELSE ba[2] :
                          ba \in { RsplitFileAtDot(Unwrap(FileName(p))) } } : TRUE

\* Path::parent
Parent(p) == IF Len(p) = 0 THEN None ELSE Some(SubSeq(p, 1, Len(p) - 1))

\* Path::join with a relative component
Join(p, c) == Append(p, c)

\* ----------------------------------------------------------- configuration

Str_mp4 == << "m", "p", "4" >>
Str_avi == << "a", "v", "i" >>
Str_mkv == << "m", "k", "v" >>
Str_mov == << "m", "o", "v" >>
Str_wmv == << "w", "m", "v" >>
Str_flv == << "f", "l", "v" >>

\* ServiceConfig::default().video_extensions
VideoExtensions == << Str_mp4, Str_avi, Str_mkv, Str_mov, Str_wmv, Str_flv >>

\* ServiceConfig::default().watch_folder, as one component
WatchFolder == << << "w" >> >>

\* "manifest.mpd" (main.rs:107), kept as one token: it is never split
ManifestName == << "manifest.mpd" >>

\* is_video_file comparing the extension byte for byte.
IsVideoFile_CaseSensitive(path, extensions) ==
    \E ext \in { Extension(path) } :
        /\ IsSome(ext)
        /\ \E ext_str \in { ToStr(Unwrap(ext)) } :
               /\ IsSome(ext_str)
               /\ \E i \in 1..Len(extensions) :
                      extensions[i] = Unwrap(ext_str)
\* is_video_file
IsVideoFile(path, extensions) ==
    \E ext \in { Extension(path) } :
        /\ IsSome(ext)
        /\ \E ext_str \in { ToStr(Unwrap(ext)) } :
               /\ IsSome(ext_str)
               /\ \E i \in 1..Len(extensions) :
                      EqIgnoreAsciiCase(extensions[i], Unwrap(ext_str))

\* ------------------------------------------------------------------ inputs

InWatch(name) == Join(WatchFolder, name)

P_a_mp4     == InWatch(<< "a", ".", "m", "p", "4" >>)
P_a_MKV     == InWatch(<< "a", ".", "M", "K", "V" >>)
P_n_txt     == InWatch(<< "n", ".", "t", "x", "t" >>)
P_dot_mp4   == InWatch(<< ".", "m", "p", "4" >>)
P_c_bad     == InWatch(<< "c", ".", BAD >>)
P_bad_mp4   == InWatch(<< BAD, ".", "m", "p", "4" >>)
P_b_mp4_mp4 == InWatch(<< "b", ".", "m", "p", "4", ".", "m", "p", "4" >>)

\* What external producers make the watcher report, by EventKind: "Create",
\* "Modify", "Remove", and "Other" for the rest (Any, Access, Other).  A rename
\* is reported as one Modify event carrying both paths.
ExternalEvents ==
    { [kind |-> "Create", paths |-> << p >>] :
        p \in { P_a_mp4, P_a_MKV, P_n_txt, P_dot_mp4, P_c_bad, P_bad_mp4,
                P_b_mp4_mp4 } }
    \cup { [kind |-> k, paths |-> << P_a_mp4 >>] : k \in { "Modify", "Remove", "Other" } }
    \cup { [kind |-> "Modify", paths |-> << P_a_mp4, P_a_MKV >>] }

StderrTexts == { << >>, << "e" >> }

\* ------------------------------------------------------------------- state

VARIABLES
    mainPc,       \* where main/watch_folder stands: "setup", "newwatcher",
                  \* "watch", "recv", "paths", "exited"
    exitCode,     \* "none" while the process runs, then "0" or "1"
    watchExists,  \* whether the watch folder exists on disk
    streamOpen,   \* whether the sending half of the channel is still alive
    chan,         \* the mpsc channel: events sent and not yet received
    curKind,      \* kind of the event the loop is processing
    curCause,     \* what produced that event: 0 an external producer, j job j
    curPaths,     \* paths of that event the inner loop has still to visit
    jobs,         \* the job threads, in the order they were spawned
    dirs,         \* output directories that exist on disk
    fsPending,    \* directories created in the watch folder whose Create
                  \* notification the watcher has not delivered yet
    produced,     \* paths handed to the watcher callback so far
    expected      \* history: qualifying (event, path) pairs the loop visited

vars == << mainPc, exitCode, watchExists, streamOpen, chan, curKind, curCause,
           curPaths, jobs, dirs, fsPending, produced, expected >>

NoPath == << >>

\* A job thread right after std::thread::spawn (main.rs:211-212, 163-166):
\* it sleeps, and it has slept for no time yet.
NewJob(path, cause) ==
    [ path      |-> path,
      cause     |-> cause,
      pc        |-> "Debouncing",
      step      |-> "none",
      slept     |-> 0,         \* time since thread::sleep was called, up to SETTLE
      outputDir |-> NoPath,
      manifest  |-> NoPath,
      madeDir   |-> FALSE,     \* create_dir_all returned Ok
      encoder   |-> "none",    \* the encoder process: "none", "spawnfail",
                               \* "running", "exit0", "exit1"
      captured  |-> << >>,     \* standard error the encoder wrote
      err       |-> "none",    \* the error convert_to_dash returned
      errText   |-> << >>,     \* text carried by that error
      reported  |-> NoPath ]   \* the path of the "Manifest location" log line

\* Job threads that would outlive the return of main.
Running_Detached == TRUE
\* main.rs:222-235: the process, and every thread in it, lives until main
\* returns.
Running == mainPc # "exited"

Init ==
    /\ mainPc = "setup"
    /\ exitCode = "none"
    /\ watchExists \in BOOLEAN
    /\ streamOpen = FALSE
    /\ chan = << >>
    /\ curKind = "none"
    /\ curCause = 0
    /\ curPaths = << >>
    /\ jobs = << >>
    /\ dirs = {}
    /\ fsPending = {}
    /\ produced = 0
    /\ expected = 0

\* ------------------------------------------------------------ watch_folder

\* An exit whose status is 0 whatever happened.
Exit_Zero(code) ==
    /\ mainPc' = "exited"
    /\ exitCode' = "0"
\* main.rs:232-234: main returns what watch_folder returned.
Exit(code) ==
    /\ mainPc' = "exited"
    /\ exitCode' = code

\* main.rs:177-181: create the watch folder when it is absent.
SetupDir ==
    /\ mainPc = "setup"
    /\ \/ /\ watchExists
          /\ mainPc' = "newwatcher"
          /\ UNCHANGED << exitCode, watchExists >>
       \/ /\ ~watchExists
          /\ watchExists' = TRUE
          /\ mainPc' = "newwatcher"
          /\ UNCHANGED exitCode
       \/ /\ ~watchExists
          /\ Exit("1")
          /\ UNCHANGED watchExists
    /\ UNCHANGED << streamOpen, chan, curKind, curCause, curPaths, jobs, dirs,
                    fsPending, produced, expected >>

\* main.rs:189-198: channel() and Watcher::new(...)?
NewWatcher ==
    /\ mainPc = "newwatcher"
    /\ \/ /\ mainPc' = "watch"
          /\ streamOpen' = TRUE
          /\ UNCHANGED exitCode
       \/ /\ Exit("1")
          /\ UNCHANGED streamOpen
    /\ UNCHANGED << watchExists, chan, curKind, curCause, curPaths, jobs, dirs,
                    fsPending, produced, expected >>

\* main.rs:200: watcher.watch(watch_path, RecursiveMode::NonRecursive)?
Watch ==
    /\ mainPc = "watch"
    /\ \/ /\ mainPc' = "recv"
          /\ UNCHANGED << exitCode, streamOpen >>
       \/ /\ Exit("1")
          /\ streamOpen' = FALSE
    /\ UNCHANGED << watchExists, chan, curKind, curCause, curPaths, jobs, dirs,
                    fsPending, produced, expected >>

Subscribed == mainPc \in { "recv", "paths" }

\* The watcher callback, main.rs:192-196, called with Ok(event): the event is
\* sent into the channel.
CallbackOk(event, cause) ==
    chan' = Append(chan, [kind |-> event.kind, paths |-> event.paths, cause |-> cause])

\* The callback called with Ok(event) for an external producer's change.
NotifyExternal ==
    /\ Subscribed
    /\ streamOpen
    /\ \E e \in ExternalEvents :
         /\ produced + Len(e.paths) <= MaxPaths
         /\ CallbackOk(e, 0)
         /\ produced' = produced + Len(e.paths)
    /\ UNCHANGED << mainPc, exitCode, watchExists, streamOpen, curKind, curCause,
                    curPaths, jobs, dirs, fsPending, expected >>

\* A callback that drops its sender when it is handed an error.
CallbackErr_Close ==
    /\ streamOpen' = FALSE
    /\ UNCHANGED chan
\* The watcher callback, main.rs:192-196, called with Err(_): `if let Ok` has
\* no else, nothing is sent and the sender stays.
CallbackErr == UNCHANGED << chan, streamOpen >>

\* The callback called with Err(_).
NotifyError ==
    /\ Subscribed
    /\ streamOpen
    /\ produced < MaxPaths
    /\ produced' = produced + 1
    /\ CallbackErr
    /\ UNCHANGED << mainPc, exitCode, watchExists, curKind,
                    curCause, curPaths, jobs, dirs, fsPending, expected >>

\* The callback called with the Create event of a directory a job made in the
\* watch folder (the watch is on the folder itself, so the folder's new
\* entries are reported).
NotifyOwnDir ==
    /\ Subscribed
    /\ streamOpen
    /\ produced < MaxPaths
    /\ \E f \in fsPending :
         /\ CallbackOk([kind |-> "Create", paths |-> << f.dir >>], f.by)
         /\ fsPending' = fsPending \ { f }
    /\ produced' = produced + 1
    /\ UNCHANGED << mainPc, exitCode, watchExists, streamOpen, curKind, curCause,
                    curPaths, jobs, dirs, expected >>

\* The sending half is dropped (the watcher's delivery context ends).
StreamClose ==
    /\ Subscribed
    /\ streamOpen
    /\ streamOpen' = FALSE
    /\ UNCHANGED << mainPc, exitCode, watchExists, chan, curKind, curCause,
                    curPaths, jobs, dirs, fsPending, produced, expected >>

\* main.rs:205: the kind test of the event loop.
KindAccepted(kind) == kind \in { "Create", "Modify" }

\* The claimed qualification rule, stated on the file name itself: the kind is
\* create or modify, the name is  stem "." ext  with a non-empty stem and no
\* "." in ext, ext is valid text, and ext equals an entry of the allow-list up
\* to the case of ASCII letters.
Qualifies(kind, path) ==
    /\ kind \in { "Create", "Modify" }
    /\ Len(path) > 0
    /\ \E i \in 2..Len(path[Len(path)]) :
         LET name == path[Len(path)]
             ext  == SubSeq(name, i + 1, Len(name))
         IN  /\ name[i] = "."
             /\ \A k \in 1..Len(ext) : ext[k] # "." /\ ext[k] # BAD
             /\ \E n \in 1..Len(VideoExtensions) :
                  /\ Len(VideoExtensions[n]) = Len(ext)
                  /\ \A k \in 1..Len(ext) :
                       AsciiLower(VideoExtensions[n][k]) = AsciiLower(ext[k])

QualifyingCount(kind, paths) ==
    Cardinality({ i \in 1..Len(paths) : Qualifies(kind, paths[i]) })

\* main.rs:204-205: `for event in rx` receives the next event, or ends when
\* the channel is empty and closed (main.rs:219, 232-234: exit status 0).
LoopRecv ==
    /\ mainPc = "recv"
    /\ \/ /\ chan # << >>
          /\ chan' = Tail(chan)
          /\ IF KindAccepted(Head(chan).kind) /\ Head(chan).paths # << >>
               THEN /\ mainPc' = "paths"
                    /\ curKind' = Head(chan).kind
                    /\ curCause' = Head(chan).cause
                    /\ curPaths' = Head(chan).paths
                    /\ UNCHANGED expected
               ELSE /\ expected' = expected
                                     + QualifyingCount(Head(chan).kind, Head(chan).paths)
                    /\ UNCHANGED << mainPc, curKind, curCause, curPaths >>
          /\ UNCHANGED exitCode
       \/ /\ chan = << >>
          /\ ~streamOpen
          /\ Exit("0")
          /\ UNCHANGED << chan, curKind, curCause, curPaths, expected >>
    /\ UNCHANGED << watchExists, streamOpen, jobs, dirs, fsPending, produced >>

\* Dispatch that puts the new job ahead of the earlier ones.
Dispatch_Front(js, path, cause) == << NewJob(path, cause) >> \o js
\* Dispatch that skips a path which has an unfinished job.
Dispatch_Dedup(js, path, cause) ==
    IF \E j \in 1..Len(js) : js[j].path = path /\ js[j].pc \notin { "Succeeded", "Failed" }
      THEN js
      ELSE Append(js, NewJob(path, cause))
\* Dispatch that starts a job only when no job is unfinished.
Dispatch_Bounded(js, path, cause) ==
    IF \E j \in 1..Len(js) : js[j].pc \notin { "Succeeded", "Failed" }
      THEN js
      ELSE Append(js, NewJob(path, cause))
\* main.rs:208-213: spawn one thread for the path.
Dispatch(js, path, cause) == Append(js, NewJob(path, cause))

\* main.rs:206-215: one turn of `for path in event.paths`.
LoopPath ==
    /\ mainPc = "paths"
    /\ LET path == Head(curPaths)
       IN  /\ jobs' = IF IsVideoFile(path, VideoExtensions)
                        THEN Dispatch(jobs, path, curCause)
                        ELSE jobs
           /\ expected' = IF Qualifies(curKind, path) THEN expected + 1 ELSE expected
    /\ curPaths' = Tail(curPaths)
    /\ mainPc' = IF Tail(curPaths) = << >> THEN "recv" ELSE "paths"
    /\ UNCHANGED << exitCode, watchExists, streamOpen, chan, curKind, curCause,
                    dirs, fsPending, produced >>

\* ------------------------------------------------------ process_video_file

SetJob(j, r) == jobs' = [jobs EXCEPT ![j] = r]

Min(a, b) == IF a <= b THEN a ELSE b

\* One unit of time passes for every thread (the clock of a sleeping thread
\* is read only up to SETTLE).
Tick ==
    /\ Running
    /\ \E j \in 1..Len(jobs) : jobs[j].pc = "Debouncing" /\ jobs[j].slept < SETTLE
    /\ jobs' = [ j \in 1..Len(jobs) |->
                 IF jobs[j].pc = "Debouncing"
                   THEN [jobs[j] EXCEPT !.slept = Min(@ + 1, SETTLE)]
                   ELSE jobs[j] ]
    /\ UNCHANGED << mainPc, exitCode, watchExists, streamOpen, chan, curKind,
                    curCause, curPaths, dirs, fsPending, produced, expected >>

\* A sleep that never returns.
SleepElapsed_Never(job) == FALSE
\* A sleep that returns at once.
SleepElapsed_NoWait(job) == TRUE
\* thread::sleep(Duration::from_secs(2)) returns once at least that long passed.
SleepElapsed(job) == job.slept >= SETTLE

\* main.rs:166-168: sleep returns, convert_to_dash is entered.
JobWake(j) ==
    /\ Running
    /\ jobs[j].pc = "Debouncing"
    /\ SleepElapsed(jobs[j])
    /\ SetJob(j, [jobs[j] EXCEPT !.pc = "Invoking", !.step = "derive"])
    /\ UNCHANGED << mainPc, exitCode, watchExists, streamOpen, chan, curKind,
                    curCause, curPaths, dirs, fsPending, produced, expected >>

\* --------------------------------------------------------- convert_to_dash

\* Output directory with the stem cut at the first "." of the name.
DeriveOutputDir_FirstDot(path) ==
    LET name == Unwrap(FileName(path))
        D    == { i \in 1..Len(name) : name[i] = "." }
        d    == IF D = {} THEN 0 ELSE CHOOSE i \in D : \A k \in D : i <= k
        stem == IF d > 1 THEN SubSeq(name, 1, d - 1) ELSE name
    IN  IF ~IsSome(FileName(path)) THEN [err |-> "InvalidFileName", dir |-> NoPath]
        ELSE IF ~IsSome(ToStr(stem)) THEN [err |-> "InvalidUtf8", dir |-> NoPath]
        ELSE IF ~IsSome(Parent(path)) THEN [err |-> "NoParent", dir |-> NoPath]
        ELSE [err |-> "none", dir |-> Join(Unwrap(Parent(path)), stem)]
\* Output directory from the stem as it is, without the to_str test.
DeriveOutputDir_Lossy(path) ==
    IF ~IsSome(FileStem(path)) THEN [err |-> "InvalidFileName", dir |-> NoPath]
    ELSE IF ~IsSome(Parent(path)) THEN [err |-> "NoParent", dir |-> NoPath]
    ELSE [err |-> "none", dir |-> Join(Unwrap(Parent(path)), Unwrap(FileStem(path)))]
\* main.rs:91-98: file_stem, parent_dir, output_dir.
DeriveOutputDir(path) ==
    CHOOSE r \in
        { IF ~IsSome(stem) THEN [err |-> "InvalidFileName", dir |-> NoPath]
          ELSE IF ~IsSome(ToStr(Unwrap(stem)))
            THEN [err |-> "InvalidUtf8", dir |-> NoPath]
          ELSE IF ~IsSome(Parent(path)) THEN [err |-> "NoParent", dir |-> NoPath]
          ELSE [err |-> "none",
                dir |-> Join(Unwrap(Parent(path)), Unwrap(ToStr(Unwrap(stem))))] :
          stem \in { FileStem(path) } } : TRUE

\* main.rs:107
ManifestPath(outputDir) == Join(outputDir, ManifestName)

\* A failure that sends the job back to sleep.
Fail_Retry(job, err) == [job EXCEPT !.pc = "Debouncing", !.step = "none", !.slept = 0]
\* main.rs:92-105, 143-148: `?` and bail! return the error from convert_to_dash.
Fail(job, err) == [job EXCEPT !.pc = "Failed", !.step = "done", !.err = err]

\* A job error that ends the process.
AfterJob_ExitOnError(pc, job) == IF job.pc = "Failed" THEN "exited" ELSE pc
\* main.rs:168-171: process_video_file only logs what convert_to_dash
\* returned; the thread ends and nothing else in the process is touched.
AfterJob(pc, job) == pc

\* A convert_to_dash that removes its output directory when it fails.
DirsAfter_Rollback(ds, job) == IF job.pc = "Failed" THEN ds \ { job.outputDir } ELSE ds
\* main.rs:143-148: the error returns of convert_to_dash after create_dir_all
\* leave the directory in place.
DirsAfter(ds, job) == ds

\* main.rs:91-101
JobDerive(j) ==
    /\ Running
    /\ jobs[j].pc = "Invoking" /\ jobs[j].step = "derive"
    /\ \E d \in { DeriveOutputDir(jobs[j].path) } :
         IF d.err # "none"
           THEN SetJob(j, Fail(jobs[j], d.err))
           ELSE SetJob(j, [jobs[j] EXCEPT !.step = "mkdir", !.outputDir = d.dir])
    /\ mainPc' = AfterJob(mainPc, jobs'[j])
    /\ UNCHANGED << exitCode, watchExists, streamOpen, chan, curKind,
                    curCause, curPaths, dirs, fsPending, produced, expected >>

\* A create_dir_all whose error is ignored: the job goes on to the encoder.
JobCreateDir_IgnoreError(j) ==
    /\ Running
    /\ jobs[j].pc = "Invoking" /\ jobs[j].step = "mkdir"
    /\ SetJob(j, [jobs[j] EXCEPT !.step = "spawn",
                                 !.manifest = ManifestPath(jobs[j].outputDir)])
    /\ UNCHANGED << mainPc, exitCode, watchExists, streamOpen, chan, curKind,
                    curCause, curPaths, dirs, fsPending, produced, expected >>
\* main.rs:104-109: create_dir_all(&output_dir)?, then the manifest path.
JobCreateDir(j) ==
    /\ Running
    /\ jobs[j].pc = "Invoking" /\ jobs[j].step = "mkdir"
    /\ \/ /\ SetJob(j, [jobs[j] EXCEPT !.step = "spawn", !.madeDir = TRUE,
                                       !.manifest = ManifestPath(jobs[j].outputDir)])
          /\ dirs' = dirs \cup { jobs[j].outputDir }
          /\ fsPending' = IF jobs[j].outputDir \in dirs
                            THEN fsPending
                            ELSE fsPending \cup { [dir |-> jobs[j].outputDir, by |-> j] }
       \/ /\ SetJob(j, Fail(jobs[j], "CreateDir"))
          /\ UNCHANGED << dirs, fsPending >>
    /\ mainPc' = AfterJob(mainPc, jobs'[j])
    /\ UNCHANGED << exitCode, watchExists, streamOpen, chan, curKind,
                    curCause, curPaths, produced, expected >>

\* Path::to_str on a whole path
PathToStr(p) ==
    IF \A i \in 1..Len(p) : IsSome(ToStr(p[i])) THEN Some(p) ELSE None

\* main.rs:114-143: the argument list is built (to_str().unwrap() on the input
\* and manifest paths panics the thread on a non-UTF-8 path), then
\* Command::output() starts the encoder or fails to.
JobSpawn(j) ==
    /\ Running
    /\ jobs[j].pc = "Invoking" /\ jobs[j].step = "spawn"
    /\ IF ~IsSome(PathToStr(jobs[j].path)) \/ ~IsSome(PathToStr(jobs[j].manifest))
         THEN SetJob(j, [jobs[j] EXCEPT !.pc = "Panicked", !.step = "done"])
         ELSE \/ SetJob(j, [jobs[j] EXCEPT !.step = "wait", !.encoder = "running"])
              \/ SetJob(j, [Fail(jobs[j], "Spawn") EXCEPT !.encoder = "spawnfail"])
    /\ mainPc' = AfterJob(mainPc, jobs'[j])
    /\ dirs' = DirsAfter(dirs, jobs'[j])
    /\ UNCHANGED << exitCode, watchExists, streamOpen, chan, curKind,
                    curCause, curPaths, fsPending, produced, expected >>

\* An outcome that runs the encoder again after a non-zero exit.
Outcome_Retry(job, code, stderr) ==
    IF code # 0
      THEN [job EXCEPT !.step = "spawn"]
      ELSE [job EXCEPT !.pc = "Succeeded", !.step = "done", !.reported = job.manifest]
\* An outcome whose error does not carry the captured standard error.
Outcome_NoStderr(job, code, stderr) ==
    IF code # 0
      THEN Fail(job, "Encode")
      ELSE [job EXCEPT !.pc = "Succeeded", !.step = "done", !.reported = job.manifest]
\* main.rs:145-159: what convert_to_dash makes of the exit status and the
\* captured standard error.
Outcome(job, code, stderr) ==
    IF code # 0
      THEN [Fail(job, "Encode") EXCEPT !.errText = stderr]
      ELSE [job EXCEPT !.pc = "Succeeded", !.step = "done", !.reported = job.manifest]

\* main.rs:142-159: the encoder exits and output() returns.
JobExit(j) ==
    /\ Running
    /\ jobs[j].pc = "Invoking" /\ jobs[j].step = "wait"
    /\ \E code \in { 0, 1 } : \E stderr \in StderrTexts :
         SetJob(j, [Outcome(jobs[j], code, stderr) EXCEPT
                      !.encoder = IF code = 0 THEN "exit0" ELSE "exit1",
                      !.captured = stderr])
    /\ mainPc' = AfterJob(mainPc, jobs'[j])
    /\ dirs' = DirsAfter(dirs, jobs'[j])
    /\ UNCHANGED << exitCode, watchExists, streamOpen, chan, curKind,
                    curCause, curPaths, fsPending, produced, expected >>

JobStep(j) ==
    \/ JobWake(j)
    \/ JobDerive(j)
    \/ JobCreateDir(j)
    \/ JobSpawn(j)
    \/ JobExit(j)

Next ==
    \/ SetupDir
    \/ NewWatcher
    \/ Watch
    \/ NotifyExternal
    \/ NotifyError
    \/ NotifyOwnDir
    \/ StreamClose
    \/ LoopRecv
    \/ LoopPath
    \/ Tick
    \/ \E j \in 1..Len(jobs) : JobStep(j)

Spec == Init /\ [][Next]_vars

\* Time passes, every job thread is scheduled, and the encoder a job waits
\* for exits.
FairSpec ==
    /\ Spec
    /\ WF_vars(Tick)
    /\ \A j \in 1..MaxPaths : WF_vars(j <= Len(jobs) /\ JobStep(j))

\* ------------------------------------------------------------------ claims

JobIds == 1..Len(jobs)

Terminal(job) == job.pc \in { "Succeeded", "Failed" }

\* The job has done work on its path: made its output directory, or got as far
\* as starting the encoder.
Worked(job) == job.madeDir \/ job.encoder # "none"

\* C1: the number of jobs created equals the number of (event, path) pairs
\* received so far whose kind is create or modify and whose extension equals
\* an entry of videoExtensions up to ASCII letter case; every job is for such a
\* path.  (expected counts the pairs by the rule Qualifies, whatever the loop
\* decides.)
C1_OneJobPerQualifyingPair ==
    /\ Len(jobs) = expected
    /\ \A j \in JobIds : Qualifies("Create", jobs[j].path)

\* An upper-case extension made a job; the other path delivered (wrong
\* extension, no extension, undecodable extension, remove/other kind, or an
\* error) made none.
C1_Witness ==
    /\ Len(jobs) = 1
    /\ jobs[1].path = P_a_MKV
    /\ produced = 2
    /\ chan = << >>
    /\ mainPc = "recv"

\* C2: a job that has made its output directory or started the encoder has
\* slept the full settle delay since it was dispatched.
C2_SettleDelayBeforeWork ==
    \A j \in JobIds :
        (jobs[j].pc # "Debouncing" \/ Worked(jobs[j])) => jobs[j].slept >= SETTLE

\* One job runs the encoder while another, dispatched later, is still in its
\* delay.
C2_Witness ==
    \E j, k \in JobIds :
        /\ jobs[j].encoder = "running"
        /\ jobs[k].pc = "Debouncing"
        /\ jobs[k].slept = 1

\* C4: a job that succeeded used the directory  parent(input)/stem  where the
\* input's name is  stem "." ext  with no "." in ext, passed that directory
\* joined with manifest.mpd to the encoder, and reported that path.
C4_OutputLocation ==
    \A j \in JobIds :
        jobs[j].pc = "Succeeded" =>
            LET path == jobs[j].path
                dir  == jobs[j].outputDir
                name == path[Len(path)]
            IN  /\ Len(dir) = Len(path)
                /\ SubSeq(dir, 1, Len(dir) - 1) = SubSeq(path, 1, Len(path) - 1)
                /\ \E ext \in { SubSeq(name, i, Len(name)) : i \in 1..Len(name) + 1 } :
                     /\ \A k \in 1..Len(ext) : ext[k] # "."
                     /\ name = dir[Len(dir)] \o << "." >> \o ext
                /\ dir \in dirs
                /\ jobs[j].manifest = dir \o << ManifestName >>
                /\ jobs[j].reported = jobs[j].manifest

\* A file whose stem itself contains a "." was converted.
C4_Witness ==
    \E j \in JobIds : jobs[j].pc = "Succeeded" /\ jobs[j].path = P_b_mp4_mp4

\* C3: once a job has failed, the process has ended only if the event stream
\* was closed and drained (exit status 0); the loop can still receive a queued
\* event; a path under visit still gets its job exactly when it qualifies; and
\* every unfinished job can still move on (or time can, for a sleeping one).
C3_FailedJobIsolated ==
    (\E j \in JobIds : jobs[j].pc = "Failed") =>
        /\ ~Running => (exitCode = "0" /\ ~streamOpen /\ chan = << >>)
        /\ (mainPc = "recv" /\ chan # << >>) => ENABLED LoopRecv
        /\ mainPc = "paths" =>
             ENABLED (LoopPath /\ Len(jobs') = Len(jobs)
                        + (IF Qualifies(curKind, Head(curPaths)) THEN 1 ELSE 0))
        /\ \A k \in JobIds :
             (Running /\ ~Terminal(jobs[k])) => (ENABLED JobStep(k) \/ ENABLED Tick)

\* The first job failed because the encoder could not be started; a job for a
\* file detected as well ran to success, and the watcher still runs.
C3_Witness ==
    /\ Len(jobs) = 2
    /\ jobs[1].pc = "Failed" /\ jobs[1].err = "Spawn"
    /\ jobs[2].pc = "Succeeded"
    /\ mainPc = "recv"

\* C5 (as claimed): two jobs whose input paths differ never use the same
\* output directory.
C5_DistinctPathsDistinctDirs ==
    \A j, k \in JobIds :
        (jobs[j].path # jobs[k].path /\ jobs[j].madeDir /\ jobs[k].madeDir)
            => jobs[j].outputDir # jobs[k].outputDir

\* C6: no deduplication: when the loop visits a qualifying path for which a job
\* already exists, it still appends one new sleeping job for that path and
\* leaves the existing jobs as they are.
C6_NoDeduplication ==
    [][ ( /\ mainPc = "paths"
          /\ curPaths' # curPaths
          /\ Qualifies(curKind, Head(curPaths))
          /\ \E j \in JobIds : jobs[j].path = Head(curPaths) )
        => /\ Len(jobs') = Len(jobs) + 1
           /\ SubSeq(jobs', 1, Len(jobs)) = jobs
           /\ jobs'[Len(jobs')].path = Head(curPaths)
           /\ jobs'[Len(jobs')].pc = "Debouncing" ]_vars

\* Two jobs for the same path are both past their delay and both have made the
\* same output directory, each about to run or running its own encoder.
C6_Witness ==
    \E j, k \in JobIds :
        /\ j # k
        /\ jobs[j].path = jobs[k].path
        /\ jobs[j].pc = "Invoking" /\ jobs[k].pc = "Invoking"
        /\ jobs[j].madeDir /\ jobs[k].madeDir
        /\ jobs[j].outputDir = jobs[k].outputDir

\* C7 (as claimed): every job is caused by an event of an external producer,
\* none by an event that a job's own activity produced.
C7_OneWayPipeline ==
    \A j \in JobIds : jobs[j].cause = 0

\* C8: however many jobs are sleeping or invoking, the loop has not ended
\* while an event is queued, it can receive a queued event at once, and a path
\* under visit is handled in one step that appends its job exactly when the
\* path qualifies: no step of the loop waits for a job or for a free slot.
C8_DispatchNeverBlocks ==
    /\ chan # << >> => mainPc \in { "recv", "paths" }
    /\ (mainPc = "recv" /\ chan # << >>) => ENABLED (LoopRecv /\ chan' = Tail(chan))
    /\ mainPc = "paths" =>
         ENABLED (LoopPath /\ jobs' = (IF Qualifies(curKind, Head(curPaths))
                                         THEN Append(jobs, NewJob(Head(curPaths), curCause))
                                         ELSE jobs))

\* As many jobs as qualifying paths were received, all running their encoder at
\* the same time.
C8_Witness ==
    /\ expected = MaxPaths
    /\ Len(jobs) = expected
    /\ \A j \in JobIds : jobs[j].encoder = "running"

\* C9: a job is created sleeping (Debouncing) when its path qualifies; its only
\* transitions are Debouncing -> Invoking once the delay has elapsed,
\* Invoking -> Succeeded on exit status 0, and Invoking -> Failed on a non-zero
\* exit, a spawn failure or a directory/path derivation failure; a job in
\* Succeeded or Failed never changes again.
C9_Lifecycle ==
    [][ /\ Len(jobs') >= Len(jobs)
        /\ \A j \in (Len(jobs) + 1)..Len(jobs') : jobs'[j].pc = "Debouncing"
        /\ \A j \in JobIds :
             LET a == jobs[j]
                 b == jobs'[j]
             IN  \/ a.pc = b.pc /\ (Terminal(a) => a = b)
                 \/ a.pc = "Debouncing" /\ b.pc = "Invoking" /\ a.slept >= SETTLE
                 \/ a.pc = "Invoking" /\ b.pc = "Succeeded" /\ b.encoder = "exit0"
                 \/ /\ a.pc = "Invoking" /\ b.pc = "Failed"
                    /\ \/ b.encoder \in { "exit1", "spawnfail" }
                       \/ b.err \in { "CreateDir", "InvalidFileName", "InvalidUtf8",
                                      "NoParent" } ]_vars

\* One job has succeeded and another has failed.
C9_Witness ==
    \E j, k \in JobIds : jobs[j].pc = "Succeeded" /\ jobs[k].pc = "Failed"

\* C10: the outcome follows the encoder invocation: not started -> Failed with
\* the invocation error; exit status non-zero -> Failed with the encoding error
\* carrying the captured standard error; exit status 0 -> Succeeded with the
\* manifest path reported; and no other job succeeds or gets these errors.
C10_OutcomeFollowsEncoder ==
    \A j \in JobIds :
        LET job == jobs[j]
        IN  /\ job.encoder = "spawnfail" => (job.pc = "Failed" /\ job.err = "Spawn")
            /\ job.encoder = "exit1" =>
                 (job.pc = "Failed" /\ job.err = "Encode" /\ job.errText = job.captured)
            /\ job.encoder = "exit0" =>
                 (job.pc = "Succeeded" /\ job.err = "none"
                    /\ job.reported = job.outputDir \o << ManifestName >>)
            /\ job.pc = "Succeeded" => job.encoder = "exit0"
            /\ job.err = "Spawn" => job.encoder = "spawnfail"
            /\ job.err = "Encode" => job.encoder = "exit1"

\* One encoder exited non-zero having written to standard error, another
\* exited with status 0.
C10_Witness ==
    \E j, k \in JobIds :
        /\ jobs[j].encoder = "exit1" /\ jobs[j].captured = << "e" >>
        /\ jobs[k].encoder = "exit0"

\* The file name of the path has no stem, or a stem that is not valid text.
NoTextStem(path) ==
    \/ ~IsSome(FileStem(path))
    \/ ~IsSome(ToStr(Unwrap(FileStem(path))))

\* C11: a job whose file name has no stem or a stem that is not text, once
\* past path derivation, is Failed with the derivation error, has created no
\* directory and started no encoder; the process has then ended only by the
\* event stream closing, the loop can still receive, and every other
\* unfinished job can still take a step (or time can pass for a sleeper).
C11_PathDerivationFailure ==
    \A j \in JobIds :
        (NoTextStem(jobs[j].path) /\ jobs[j].pc # "Debouncing" /\ jobs[j].step # "derive") =>
            /\ jobs[j].pc = "Failed"
            /\ jobs[j].err \in { "InvalidFileName", "InvalidUtf8" }
            /\ ~jobs[j].madeDir
            /\ jobs[j].outputDir = NoPath
            /\ jobs[j].encoder = "none"
            /\ \A f \in fsPending : f.by # j
            /\ ~Running => (exitCode = "0" /\ ~streamOpen /\ chan = << >>)
            /\ (mainPc = "recv" /\ chan # << >>) => ENABLED LoopRecv
            /\ \A k \in JobIds \ { j } :
                 (Running /\ ~Terminal(jobs[k])) => (ENABLED JobStep(k) \/ ENABLED Tick)

\* A job for a file whose stem is not text has failed with nothing created,
\* while the job of another file runs its encoder and the loop still receives.
C11_Witness ==
    \E j, k \in JobIds :
        /\ jobs[j].path = P_bad_mp4
        /\ jobs[j].pc = "Failed" /\ jobs[j].err = "InvalidUtf8"
        /\ dirs = { jobs[k].outputDir }
        /\ jobs[k].encoder = "running"
        /\ mainPc = "recv"

\* C12: within a job the output directory is created before the encoder is
\* started: a step that starts the encoder (or fails to start it) is taken by a
\* job that had already created its output directory, which exists; and a job
\* whose directory creation failed is Failed, without a directory of its own
\* making and with no encoder ever started.
C12_MkdirPrecedesEncoder ==
    [][ \A j \in JobIds :
          /\ (jobs[j].encoder = "none" /\ jobs'[j].encoder # "none") =>
                (jobs[j].madeDir /\ jobs[j].outputDir \in dirs /\ jobs[j].step = "spawn")
          /\ jobs'[j].err = "CreateDir" =>
                (jobs'[j].pc = "Failed" /\ ~jobs'[j].madeDir /\ jobs'[j].encoder = "none")
          /\ jobs[j].err = "CreateDir" => jobs'[j] = jobs[j] ]_vars

\* One job failed to create its directory, another created its own and runs
\* the encoder.
C12_Witness ==
    \E j, k \in JobIds :
        /\ jobs[j].err = "CreateDir" /\ jobs[j].pc = "Failed" /\ jobs[j].encoder = "none"
        /\ jobs[k].madeDir /\ jobs[k].encoder = "running"

\* The encoder of the job could not be started or exited non-zero.
EncoderFailed(job) == job.encoder \in { "spawnfail", "exit1" }

\* C13: no retry.  A job's encoder is started at most once (its encoder goes
\* from not started to running or failed-to-start, from running to exited, and
\* nowhere else); a Failed job never changes again; a job whose encoder failed
\* is Failed itself; and when every job so far has failed, the process ends
\* only by the event stream closing (exit status 0) and a qualifying path
\* visited by the loop still gets its new job.
C13_NoRetry ==
    [][ /\ \A j \in JobIds :
             /\ \/ jobs'[j].encoder = jobs[j].encoder
                \/ jobs[j].encoder = "none" /\ jobs'[j].encoder \in { "running", "spawnfail" }
                \/ jobs[j].encoder = "running" /\ jobs'[j].encoder \in { "exit0", "exit1" }
             /\ jobs[j].pc = "Failed" => jobs'[j] = jobs[j]
             /\ EncoderFailed(jobs'[j]) => jobs'[j].pc = "Failed"
        /\ (jobs # << >> /\ \A j \in JobIds : jobs[j].pc = "Failed") =>
             /\ (Running /\ ~Running') =>
                  (mainPc = "recv" /\ chan = << >> /\ ~streamOpen /\ exitCode' = "0")
             /\ (mainPc = "paths" /\ curPaths' # curPaths
                    /\ Qualifies(curKind, Head(curPaths))) =>
                  jobs' = Append(jobs, NewJob(Head(curPaths), curCause)) ]_vars

\* Two jobs, one after the other, each failed on its own encoder, and the
\* watcher still delivers and the loop still receives.
C13_Witness ==
    /\ Len(jobs) = 2
    /\ EncoderFailed(jobs[1]) /\ jobs[1].pc = "Failed"
    /\ EncoderFailed(jobs[2]) /\ jobs[2].pc = "Failed"
    /\ jobs[1].encoder # jobs[2].encoder
    /\ mainPc = "recv" /\ streamOpen

\* The qualifying paths of an event, in the order of its path list.
QualifyingPaths(kind, paths) == SelectSeq(paths, LAMBDA p : Qualifies(kind, p))

\* The qualifying paths of the queued events, oldest event first.
RECURSIVE QueuedOrder(_)
QueuedOrder(q) ==
    IF q = << >> THEN << >>
    ELSE QualifyingPaths(Head(q).kind, Head(q).paths) \o QueuedOrder(Tail(q))

\* The paths of the jobs in spawn order, then the qualifying paths still to be
\* visited in the event under processing, then those of the queued events.
DeliveryOrder ==
    [ j \in 1..Len(jobs) |-> jobs[j].path ]
        \o QualifyingPaths(curKind, curPaths) \o QueuedOrder(chan)

\* C14: delivery order is dispatch order.  A delivery appends the event's
\* qualifying paths at the end of DeliveryOrder and every other step leaves
\* DeliveryOrder as it is, so the jobs, in spawn order, are always a prefix of
\* the qualifying paths in the order the watcher delivered them; and of two
\* sleeping jobs the one spawned earlier has slept at least as long.
C14_DispatchInDeliveryOrder ==
    [][ /\ IF Len(chan') = Len(chan) + 1
             THEN DeliveryOrder' =
                    DeliveryOrder \o QualifyingPaths(chan'[Len(chan')].kind,
                                                     chan'[Len(chan')].paths)
             ELSE DeliveryOrder' = DeliveryOrder
        /\ \A j, k \in 1..Len(jobs') :
             (j < k /\ jobs'[j].pc = "Debouncing" /\ jobs'[k].pc = "Debouncing")
                => jobs'[j].slept >= jobs'[k].slept ]_vars

\* Two paths delivered in one event were dispatched in the order of the path
\* list, and the job dispatched second finished while the first still runs.
C14_Witness ==
    /\ Len(jobs) = 2
    /\ jobs[1].path = P_a_mp4 /\ jobs[2].path = P_a_MKV
    /\ jobs[1].encoder = "running"
    /\ jobs[2].pc = "Succeeded"

\* The process has not subscribed yet.
InSetup(pc) == pc \in { "setup", "newwatcher", "watch" }

\* C15: watch setup is all-or-nothing.  The watch folder exists when setup
\* moves on to subscribing; a process that ends during setup ends with a
\* non-zero status, with no job and no event; as long as setup lasts no event
\* was delivered or consumed and no job exists, and after a failed setup none
\* ever is; and exit status 0 is taken only by the loop, when the event stream
\* is closed and drained.
C15_SetupAllOrNothing ==
    [][ /\ (mainPc = "setup" /\ mainPc' # "exited") => watchExists'
        /\ InSetup(mainPc') => (jobs' = << >> /\ chan' = << >> /\ produced' = 0)
        /\ (~InSetup(mainPc) /\ Running) => (watchExists /\ ~InSetup(mainPc'))
        /\ (InSetup(mainPc) /\ ~Running') =>
             (exitCode' = "1" /\ jobs' = << >> /\ chan' = << >> /\ ~streamOpen')
        /\ (Running /\ exitCode' = "0") =>
             (mainPc = "recv" /\ ~streamOpen /\ chan = << >>)
        /\ ~Running => UNCHANGED << mainPc, exitCode, jobs, chan >>
        /\ Running' <=> exitCode' = "none" ]_vars

\* The folder is there but the subscription failed: the process has ended
\* with status 1 and nothing was dispatched.
C15_Witness ==
    /\ mainPc = "exited" /\ exitCode = "1"
    /\ watchExists
    /\ jobs = << >> /\ chan = << >> /\ produced = 0

\* C16: with time passing, job threads scheduled and encoders exiting, every
\* job created reaches Succeeded or Failed unless the process ends first.
C16_JobsTerminate ==
    \A j \in 1..MaxPaths :
        (j <= Len(jobs)) ~> (j <= Len(jobs) /\ (Terminal(jobs[j]) \/ ~Running))

\* Every job the run could have has finished, by success and by failure,
\* while the process still runs and the event stream is still open.
C16_Witness ==
    /\ Len(jobs) = MaxPaths
    /\ \A j \in JobIds : Terminal(jobs[j])
    /\ \E j \in JobIds : jobs[j].encoder = "exit0"
    /\ Running /\ streamOpen

\* C17: no rollback.  A job that is Failed after having created its output
\* directory (the encoder could not be started, or exited non-zero) has left
\* that directory on disk.
C17_NoRollback ==
    \A j \in JobIds :
        (jobs[j].pc = "Failed" /\ jobs[j].madeDir) =>
            /\ EncoderFailed(jobs[j])
            /\ jobs[j].outputDir \in dirs

\* The only job there was made the only directory there is, and failed on a
\* non-zero exit of its encoder.
C17_Witness ==
    /\ Len(jobs) = 1
    /\ jobs[1].pc = "Failed" /\ jobs[1].encoder = "exit1" /\ jobs[1].madeDir
    /\ dirs = { jobs[1].outputDir }

\* C18: the loop ends the process as soon as the event stream is closed and
\* drained, whatever the jobs are doing, and once the process has ended no job
\* changes any more: a job then sleeping or invoking never finishes.
C18_ExitWithoutWaiting ==
    [][ /\ (mainPc = "recv" /\ chan = << >> /\ ~streamOpen) =>
             ENABLED (LoopRecv /\ mainPc' = "exited" /\ exitCode' = "0")
        /\ mainPc = "exited" => (jobs' = jobs /\ dirs' = dirs) ]_vars

\* The process has ended with status 0 while one job was still sleeping and
\* another was running its encoder.
C18_Witness ==
    /\ mainPc = "exited" /\ exitCode = "0"
    /\ \E j, k \in JobIds :
         /\ jobs[j].pc = "Debouncing"
         /\ jobs[k].pc = "Invoking" /\ jobs[k].encoder = "running"

====
